---- MODULE Spec2Model ----
(***************************************************************************)
(* mini-rag: incremental indexing of a directory of text documents.        *)
(* The model follows src/app/main.py.  A pass of import_documents is split *)
(* at the places where a model call (get_completion / get_embedding) can   *)
(* raise, and between the save of the vector index and the write of the   *)
(* doc->excerpt-ids entry; remove_document_by_id is one atomic step.       *)
(* SpecGraph runs extract_entities on its own, with a graph file that may  *)
(* stop parsing; SpecRecords runs its loop over records one record at a    *)
(* time; SpecChunk calls get_excerpts alone.                               *)
(*                                                                         *)
(* Contents are sequences of characters.  The chunker's defaults           *)
(* (n = 2000, overlap = 200) are scaled down to Step + Overlap and Overlap *)
(* so that short contents already give several, overlapping and repeated   *)
(* excerpts.  Timestamps and embedding vectors are left out of the         *)
(* records: no step of main.py reads them back.                            *)
(***************************************************************************)
EXTENDS Integers, Sequences, FiniteSets, TLC

\* ------------------------------------------------------------------ bounds
Step == 1
Overlap == 1
MaxLen == 3
MaxN == 3
MaxEvents == 3
MaxRecords == 3

\* ------------------------------------------------------------- input sets
Sources == {"s1", "s2"}
\* the order in which get_docs lists the directory
SourceOrder == <<"s1", "s2">>

Alphabet == {"a", "b"}

\* every character sequence of length at most k
RECURSIVE Strings(_)
Strings(k) ==
    IF k = 0 THEN {<<>>}
    ELSE LET shorter == Strings(k - 1)
         IN shorter \cup {Append(s, c) : s \in {t \in shorter : Len(t) = k - 1}, c \in Alphabet}

\* the contents a document of the directory may take
Contents == {<<>>, <<"b">>, <<"a", "a", "a">>, <<"a", "a", "b">>}

\* ---------------------------------------------------------------- helpers
\* app.utilities.make_hash: a content-only digest with a prefix
make_hash(content, prefix) == <<prefix, content>>

\* app.utilities.add_to_json: set key to value in a persisted mapping
add_to_json(map, key, value) ==
    [k \in (DOMAIN map) \cup {key} |-> IF k = key THEN value ELSE map[k]]

\* app.utilities.remove_from_json: delete key from a persisted mapping
remove_from_json(map, key) ==
    [k \in (DOMAIN map) \ {key} |-> map[k]]

EmptyMap == [k \in {} |-> {}]

Min(a, b) == IF a < b THEN a ELSE b

CeilDiv(a, b) == (a + b - 1) \div b

\* range(0, stop, step) of Python, step # 0
Range(stop, step) ==
    IF step > 0 THEN [k \in 1..CeilDiv(stop, step) |-> (k - 1) * step]
    ELSE <<>>

\* content[i:i + n] of Python for 0 <= i, 0 < n  (0-based i)
Slice(content, i, n) == SubSeq(content, i + 1, Min(i + n, Len(content)))

\* what a call returns: a value, or the exception it raises
Returns(value) == [raised |-> FALSE, value |-> value]
Raises == [raised |-> TRUE, value |-> <<>>]

\* a chunker that advances by the window size
get_excerpts_step_n(content, n, overlap) ==
    LET step == n
    IN IF step = 0 THEN Raises
       ELSE LET starts == Range(Len(content), step)
            IN Returns([k \in DOMAIN starts |-> Slice(content, starts[k], n)])

\* get_excerpts(content, n, overlap); range() raises ValueError on a zero step
get_excerpts(content, n, overlap) ==
    LET step == n - overlap
    IN IF step = 0 THEN Raises
       ELSE LET starts == Range(Len(content), step)
            IN Returns([k \in DOMAIN starts |-> Slice(content, starts[k], n)])

\* get_excerpts(content) with the default window and overlap
excerpts_of(content) == get_excerpts(content, Step + Overlap, Overlap).value

\* ------------------------------------------------------------------ state
VARIABLES
    files,                  \* INPUT_DOCS_DIR: source -> content
    source_to_doc_id_map,   \* SOURCE_TO_DOC_ID_MAP
    doc_id_to_source_map,   \* DOC_ID_TO_SOURCE_MAP
    doc_id_to_excerpt_ids,  \* DOC_ID_TO_EXCERPT_IDS
    excerpt_db,             \* EXCERPT_DB: excerpt id -> record
    embeddings_db,          \* the process's NanoVectorDB: id -> record
    embeddings_file,        \* EMBEDDINGS_DB, the storage file of embeddings_db
    kg_db,                  \* KG_DB, the graphml file
    pc,                     \* where the process is
    sources,                \* import_documents: sources still to visit
    source,                 \* import_documents: current source
    content,                \* import_documents: its content
    doc_id,                 \* import_documents: its doc id
    i,                      \* embed_document / extract_entities: excerpts done
    excerpt_ids,            \* embed_document: excerpt_ids
    graph,                  \* extract_entities: graph
    op,                     \* history: the step taken last, the doc id it was about,
                            \*   and whether a removal found that id in a map
    quiet,                  \* history: a pass completed and nothing happened since
    updates,                \* history: the updates of the current or last pass
    aborted,                \* history: source -> the indexing pass that aborted
    events,                 \* history: edits, removals, restarts and failures so far
    arg,                    \* a call of get_excerpts: its arguments
    ret,                    \* a call of get_excerpts: its result
    records,                \* extract_entities: the records of a model response
    applied,                \* extract_entities: how many of them the loop has handled
    before,                 \* history: the graph when the loop over records began
    call,                   \* history: how the running extract_entities got its graph,
                            \*   and what its records give on an empty graph
    last_entity             \* history: name -> category and description of the latest
                            \*   entity record that reached the graph file

stores == <<source_to_doc_id_map, doc_id_to_source_map, doc_id_to_excerpt_ids,
            excerpt_db, embeddings_db, embeddings_file>>
locals == <<sources, source, content, doc_id, i, excerpt_ids, graph>>
history == <<op, quiet, updates, aborted, events>>
chunker == <<arg, ret>>
parser == <<records, applied, before>>
extraction == <<call, last_entity>>
vars == <<files, stores, kg_db, pc, locals, history, chunker, parser, extraction>>

\* the four maps, the live vector index and its file, as one value
DB ==
    [s2d  |-> source_to_doc_id_map,
     d2s  |-> doc_id_to_source_map,
     d2e  |-> doc_id_to_excerpt_ids,
     ex   |-> excerpt_db,
     vec  |-> embeddings_db,
     file |-> embeddings_file]

SetDB(db) ==
    /\ source_to_doc_id_map' = db.s2d
    /\ doc_id_to_source_map' = db.d2s
    /\ doc_id_to_excerpt_ids' = db.d2e
    /\ excerpt_db' = db.ex
    /\ embeddings_db' = db.vec
    /\ embeddings_file' = db.file

SeqRange(s) == {s[k] : k \in DOMAIN s}

\* ------------------------------------------------------------ NanoVectorDB
\* upsert([{"__id__": id, ...}]): insert or replace by id
upsert(vec, id, record) == add_to_json(vec, id, record)

\* delete(ids): drop the records whose id is listed; absent ids are ignored
delete(vec, ids) == [k \in (DOMAIN vec) \ SeqRange(ids) |-> vec[k]]

\* --------------------------------------------------- remove_document_by_id
\* for excerpt_id in excerpt_ids: remove_from_json(EXCERPT_DB, excerpt_id)
RECURSIVE remove_excerpts(_, _)
remove_excerpts(ex, ids) ==
    IF ids = <<>> THEN ex
    ELSE remove_excerpts(remove_from_json(ex, Head(ids)), Tail(ids))

\* a removal that leaves the vector index alone
remove_document_keeps_vectors(db, id) ==
    LET maps == IF id \in DOMAIN db.d2s
                THEN [db EXCEPT !.d2s = remove_from_json(@, id),
                                !.s2d = remove_from_json(@, db.d2s[id])]
                ELSE db
    IN IF id \in DOMAIN db.d2e
       THEN [maps EXCEPT !.ex  = remove_excerpts(@, db.d2e[id]),
                         !.d2e = remove_from_json(@, id)]
       ELSE maps

\* a removal that saves the index whether or not it deleted from it
remove_document_always_saves(db, id) ==
    LET maps == IF id \in DOMAIN db.d2s
                THEN [db EXCEPT !.d2s = remove_from_json(@, id),
                                !.s2d = remove_from_json(@, db.d2s[id])]
                ELSE db
        ids  == IF id \in DOMAIN db.d2e THEN db.d2e[id] ELSE <<>>
        left == delete(db.vec, ids)
    IN [maps EXCEPT !.ex   = remove_excerpts(@, ids),
                    !.d2e  = remove_from_json(@, id),
                    !.vec  = left,
                    !.file = left]

\* remove_document_by_id(doc_id), lines 35-47
remove_document_by_id(db, id) ==
    LET maps == IF id \in DOMAIN db.d2s
                THEN [db EXCEPT !.d2s = remove_from_json(@, id),
                                !.s2d = remove_from_json(@, db.d2s[id])]
                ELSE db
    IN IF id \in DOMAIN db.d2e
       THEN LET ids  == db.d2e[id]
                left == delete(db.vec, ids)
            IN [maps EXCEPT !.ex   = remove_excerpts(@, ids),
                            !.d2e  = remove_from_json(@, id),
                            !.vec  = left,
                            !.file = left]
       ELSE maps

\* ------------------------------------------------------- add_document_maps
add_document_maps(db, src, text) ==
    LET id == make_hash(text, "doc_")
    IN [db EXCEPT !.s2d = add_to_json(@, src, id),
                  !.d2s = add_to_json(@, id, src)]

\* ------------------------------------------------------------------ graph
EmptyGraph == [nodes |-> EmptyMap, edges |-> EmptyMap, graph |-> EmptyMap]

\* KG_DB: whether the file exists, whether read_graphml can parse it, and the
\* graph that was written to it
NoGraphFile == [exists |-> FALSE, parses |-> FALSE, graph |-> EmptyGraph]

\* str.lower() on the discriminators the responses use
Lower(s) ==
    CASE s = "\"ENTITY\"" -> "\"entity\""
      [] s = "\"Relationship\"" -> "\"relationship\""
      [] OTHER -> s

\* dict.update: the attributes of attrs, overwritten by those of new
update(attrs, new) ==
    [k \in (DOMAIN attrs) \cup (DOMAIN new) |->
        IF k \in DOMAIN new THEN new[k] ELSE attrs[k]]

\* an add_node that leaves the attributes of an existing node alone
add_node_keeps_first(g, name, attrs) ==
    IF name \in DOMAIN g.nodes /\ g.nodes[name] # EmptyMap THEN g
    ELSE [g EXCEPT !.nodes = add_to_json(@, name, attrs)]

\* DiGraph.add_node(name, **attrs)
add_node(g, name, attrs) ==
    [g EXCEPT !.nodes = add_to_json(@, name,
        update(IF name \in DOMAIN g.nodes THEN g.nodes[name] ELSE EmptyMap, attrs))]

\* an add_edge that starts both endpoints afresh
add_edge_resets_endpoints(g, u, v, attrs) ==
    LET withU == add_to_json(g.nodes, u, EmptyMap)
        withV == add_to_json(withU, v, EmptyMap)
    IN [g EXCEPT !.nodes = withV,
                 !.edges = add_to_json(@, <<u, v>>, attrs)]

\* DiGraph.add_edge(u, v, **attrs): absent endpoints become nodes without attributes
add_edge(g, u, v, attrs) ==
    LET withU == IF u \in DOMAIN g.nodes THEN g ELSE add_node(g, u, EmptyMap)
        withV == IF v \in DOMAIN withU.nodes THEN withU ELSE add_node(withU, v, EmptyMap)
    IN [withV EXCEPT !.edges = add_to_json(@, <<u, v>>,
        update(IF <<u, v>> \in DOMAIN g.edges THEN g.edges[<<u, v>>] ELSE EmptyMap, attrs))]

\* a record loop that takes an entity record of three fields
apply_record_short_entity(g, fields) ==
    IF fields = <<>> THEN g
    ELSE IF Lower(fields[1]) = "\"entity\"" /\ Len(fields) >= 3
         THEN add_node(g, fields[2],
                [k \in {"category", "description"} |->
                    IF k = "category" THEN fields[3]
                    ELSE IF Len(fields) >= 4 THEN fields[4] ELSE ""])
         ELSE g

\* lines 156-174: one record, already split into its fields
apply_record(g, fields) ==
    IF fields = <<>> THEN g
    ELSE LET record_type == Lower(fields[1])
         IN IF record_type = "\"entity\""
            THEN IF Len(fields) >= 4
                 THEN add_node(g, fields[2],
                        [k \in {"category", "description"} |->
                            IF k = "category" THEN fields[3] ELSE fields[4]])
                 ELSE g
            ELSE IF record_type = "\"relationship\""
            THEN IF Len(fields) >= 6
                 THEN add_edge(g, fields[2], fields[3],
                        [k \in {"description", "keywords", "weight"} |->
                            CASE k = "description" -> fields[4]
                              [] k = "keywords" -> fields[5]
                              [] OTHER -> fields[6]])
                 ELSE g
            ELSE IF record_type = "\"content_keywords\""
            THEN IF Len(fields) >= 2
                 THEN [g EXCEPT !.graph = add_to_json(@, "content_keywords", fields[2])]
                 ELSE g
            ELSE g

\* lines 155-174: the records of one response, in order
RECURSIVE apply_records(_, _)
apply_records(g, response) ==
    IF response = <<>> THEN g
    ELSE apply_records(apply_record(g, Head(response)), Tail(response))

\* what the extraction model may answer for an excerpt, split into records and fields
Responses ==
    { <<>>,
      << <<"\"entity\"", "\"A\"", "\"cat\"", "\"desc\"">>,
         <<"\"relationship\"", "\"A\"", "\"B\"", "\"d\"", "\"k\"", "\"1\"">> >> }

\* ------------------------------------------------------------------- Init
\* the directories the program may be started on
Directories ==
    UNION {[S -> Contents] : S \in SUBSET Sources}

\* something outside the pass happens, or a model call fails
Event ==
    /\ events < MaxEvents
    /\ events' = events + 1

NoDoc == <<>>
NoCall == [start |-> "none", old |-> EmptyGraph, fresh |-> EmptyGraph, entities |-> EmptyMap]
NoArg == [content |-> <<>>, n |-> 0, overlap |-> 0]
Pending == [called |-> FALSE, raised |-> FALSE, value |-> <<>>]

IdleLocals ==
    /\ sources' = <<>>
    /\ source' = ""
    /\ content' = <<>>
    /\ doc_id' = NoDoc
    /\ i' = 0
    /\ excerpt_ids' = <<>>
    /\ graph' = EmptyGraph

Did(name, id) == op' = [name |-> name, doc |-> id, found |-> FALSE]

InitStores ==
    /\ source_to_doc_id_map = EmptyMap
    /\ doc_id_to_source_map = EmptyMap
    /\ doc_id_to_excerpt_ids = EmptyMap
    /\ excerpt_db = EmptyMap
    /\ embeddings_db = EmptyMap
    /\ embeddings_file = EmptyMap
    /\ kg_db = NoGraphFile
    /\ pc = "idle"
    /\ sources = <<>>
    /\ source = ""
    /\ content = <<>>
    /\ doc_id = NoDoc
    /\ i = 0
    /\ excerpt_ids = <<>>
    /\ graph = EmptyGraph
    /\ op = [name |-> "init", doc |-> NoDoc, found |-> FALSE]
    /\ quiet = FALSE
    /\ updates = {}
    /\ aborted = EmptyMap
    /\ events = 0
    /\ records = <<>>
    /\ applied = 0
    /\ before = EmptyGraph
    /\ call = NoCall
    /\ last_entity = EmptyMap

Init ==
    /\ InitStores
    /\ files \in Directories
    /\ arg = NoArg
    /\ ret = Pending

\* ---------------------------------------------------------------- actions
DocIds == {make_hash(c, "doc_") : c \in Contents}

\* get_docs(INPUT_DOCS_DIR): the sources of the directory, in listing order
get_docs(dir) == SelectSeq(SourceOrder, LAMBDA s : s \in DOMAIN dir)

\* a document of the directory is written or rewritten
EditFile(s, c) ==
    /\ pc = "idle"
    /\ IF s \in DOMAIN files THEN files[s] # c ELSE TRUE
    /\ files' = add_to_json(files, s, c)
    /\ Did("edit", NoDoc)
    /\ quiet' = FALSE
    /\ updates' = {}
    /\ Event
    /\ UNCHANGED <<stores, kg_db, pc, locals, aborted, chunker, parser, extraction>>

\* import_documents, line 51
StartImport ==
    /\ pc = "idle"
    /\ pc' = "loop"
    /\ sources' = get_docs(files)
    /\ updates' = {}
    /\ Did("start", NoDoc)
    /\ UNCHANGED <<files, stores, kg_db, source, content, doc_id, i, excerpt_ids,
                   graph, quiet, aborted, events, chunker, parser, extraction>>

\* the head of the loop at line 52, up to the call of embed_document
Visit(db) ==
    /\ source' = Head(sources)
    /\ content' = files[Head(sources)]
    /\ doc_id' = make_hash(files[Head(sources)], "doc_")
    /\ SetDB(db)
    /\ pc' = "embed"
    /\ i' = 0
    /\ excerpt_ids' = <<>>
    /\ UNCHANGED <<files, kg_db, sources, graph, quiet, aborted, events, chunker, parser, extraction>>

\* lines 58-60: a source not in the source->doc-id map
ImportNew ==
    /\ pc = "loop"
    /\ sources # <<>>
    /\ Head(sources) \notin DOMAIN source_to_doc_id_map
    /\ Visit(add_document_maps(DB, Head(sources), files[Head(sources)]))
    /\ Did("new", make_hash(files[Head(sources)], "doc_"))
    /\ UNCHANGED updates

\* lines 63-67: a known source whose hash differs from its doc id
ImportUpdate ==
    /\ pc = "loop"
    /\ sources # <<>>
    /\ Head(sources) \in DOMAIN source_to_doc_id_map
    /\ LET src        == Head(sources)
           text       == files[src]
           old_doc_id == source_to_doc_id_map[src]
       IN /\ old_doc_id # make_hash(text, "doc_")
          /\ Visit(add_document_maps(remove_document_by_id(DB, old_doc_id), src, text))
          /\ Did("update", make_hash(text, "doc_"))
          /\ updates' = updates \cup
                {[source  |-> src,
                  old     |-> old_doc_id,
                  new     |-> text,
                  partial |-> /\ src \in DOMAIN aborted
                              /\ aborted[src].leg = "embed"
                              /\ make_hash(aborted[src].content, "doc_") = old_doc_id]}

\* lines 70-71: a known source with the same hash
ImportSkip ==
    /\ pc = "loop"
    /\ sources # <<>>
    /\ Head(sources) \in DOMAIN source_to_doc_id_map
    /\ source_to_doc_id_map[Head(sources)] = make_hash(files[Head(sources)], "doc_")
    /\ sources' = Tail(sources)
    /\ Did("skip", make_hash(files[Head(sources)], "doc_"))
    /\ UNCHANGED <<files, stores, kg_db, pc, source, content, doc_id, i, excerpt_ids,
                   graph, quiet, updates, aborted, events, chunker, parser, extraction>>

\* import_documents returns
ImportDone ==
    /\ pc = "loop"
    /\ sources = <<>>
    /\ pc' = "idle"
    /\ quiet' = TRUE
    /\ Did("pass_done", NoDoc)
    /\ UNCHANGED <<files, stores, kg_db, locals, updates, aborted, events, chunker, parser, extraction>>

\* a model call raises: the exception leaves import_documents
Abort(leg) ==
    /\ pc' = "idle"
    /\ IdleLocals
    /\ quiet' = FALSE
    /\ aborted' = add_to_json(aborted, source, [content |-> content, leg |-> leg])
    /\ Did(leg \o "_fail", doc_id)
    /\ Event
    /\ call' = NoCall
    /\ UNCHANGED <<files, stores, kg_db, updates, chunker, parser, last_entity>>

\* the summary the completion model gives for an excerpt
Summary == "summary"

\* a loop body that upserts the vector and forgets the excerpt record
embed_excerpt_no_record(db, id, k, excerpt) ==
    [db EXCEPT !.vec = upsert(@, make_hash(excerpt, "excerpt_id_"), [doc_id |-> id])]

\* lines 84-98, one turn of the loop of embed_document
embed_excerpt(db, id, k, excerpt) ==
    LET excerpt_id == make_hash(excerpt, "excerpt_id_")
    IN [db EXCEPT
          !.vec = upsert(@, excerpt_id, [doc_id |-> id]),
          !.ex  = add_to_json(@, excerpt_id,
                    [doc_id |-> id, doc_order_index |-> k,
                     excerpt |-> excerpt, summary |-> Summary])]

Embed ==
    /\ pc = "embed"
    /\ i < Len(excerpts_of(content))
    /\ LET excerpt == excerpts_of(content)[i + 1]
       IN /\ SetDB(embed_excerpt(DB, doc_id, i, excerpt))
          /\ excerpt_ids' = Append(excerpt_ids, make_hash(excerpt, "excerpt_id_"))
    /\ i' = i + 1
    /\ Did("embed", doc_id)
    /\ UNCHANGED <<files, kg_db, pc, sources, source, content, doc_id, graph,
                   quiet, updates, aborted, events, chunker, parser, extraction>>

\* get_excerpt_summary (line 86) or get_embedding (line 88) raises
EmbedFail ==
    /\ pc = "embed"
    /\ i < Len(excerpts_of(content))
    /\ Abort("embed")

\* a save that writes nothing
save_skipped(db) == db

\* line 101: embeddings_db.save()
save(db) == [db EXCEPT !.file = db.vec]

\* the loop of embed_document is over: line 101
EmbedSave ==
    /\ pc = "embed"
    /\ i = Len(excerpts_of(content))
    /\ SetDB(save(DB))
    /\ pc' = "save"
    /\ Did("embed_save", doc_id)
    /\ UNCHANGED <<files, kg_db, locals, quiet, updates, aborted, events, chunker,
                   parser, extraction>>

\* line 102: add_to_json(DOC_ID_TO_EXCERPT_IDS, doc_id, excerpt_ids)
write_excerpt_ids(db, id, ids) == [db EXCEPT !.d2e = add_to_json(@, id, ids)]

\* line 102, and embed_document returns
EmbedDone ==
    /\ pc = "save"
    /\ SetDB(write_excerpt_ids(DB, doc_id, excerpt_ids))
    /\ pc' = "load"
    /\ Did("embed_done", doc_id)
    /\ UNCHANGED <<files, kg_db, locals, quiet, updates, aborted, events, chunker,
                   parser, extraction>>

\* a load that never reads the graph file
load_graph_empty(kg) == EmptyGraph

\* a load that reads the graph file whether or not it parses
load_graph_unchecked(kg) == IF kg.exists THEN kg.graph ELSE EmptyGraph

\* lines 124-134: the graph extract_entities starts from
load_graph(kg) ==
    IF kg.exists
    THEN IF kg.parses THEN kg.graph ELSE EmptyGraph
    ELSE EmptyGraph

\* which of the three branches of lines 125-134 was taken
load_branch(kg) ==
    IF kg.exists
    THEN IF kg.parses THEN "parsed" ELSE "fallback"
    ELSE "absent"

\* line 176: nx.write_graphml(graph, KG_DB)
write_graphml(g) == [exists |-> TRUE, parses |-> TRUE, graph |-> g]

\* history: the entity records of a response that lines 161-165 hand to add_node,
\* latest last, on top of those known
RECURSIVE entities_of(_, _)
entities_of(known, response) ==
    IF response = <<>> THEN known
    ELSE LET fields == Head(response)
             next == IF /\ Len(fields) >= 4
                        /\ Lower(fields[1]) = "\"entity\""
                     THEN add_to_json(known, fields[2],
                            [category |-> fields[3], description |-> fields[4]])
                     ELSE known
         IN entities_of(next, Tail(response))

LoadGraph ==
    /\ pc = "load"
    /\ graph' = load_graph(kg_db)
    /\ i' = 0
    /\ pc' = "extract"
    /\ call' = [start    |-> load_branch(kg_db),
                old      |-> kg_db.graph,
                fresh    |-> EmptyGraph,
                entities |-> IF load_branch(kg_db) = "parsed" THEN last_entity
                             ELSE EmptyMap]
    /\ Did("load", doc_id)
    /\ UNCHANGED <<files, stores, kg_db, sources, source, content, doc_id,
                   excerpt_ids, quiet, updates, aborted, events, chunker, parser,
                   last_entity>>

\* lines 136-174, one turn of the loop of extract_entities, the model answering
\* with one of the responses
ExtractWith(responses) ==
    /\ pc = "extract"
    /\ i < Len(excerpts_of(content))
    /\ \E response \in responses :
          /\ graph' = apply_records(graph, response)
          /\ call' = [call EXCEPT !.fresh = apply_records(@, response),
                                  !.entities = entities_of(@, response)]
    /\ i' = i + 1
    /\ Did("extract", doc_id)
    /\ UNCHANGED <<files, stores, kg_db, pc, sources, source, content, doc_id,
                   excerpt_ids, quiet, updates, aborted, events, chunker, parser,
                   last_entity>>

Extract == ExtractWith(Responses)

\* get_completion (line 137) raises
ExtractFail ==
    /\ pc = "extract"
    /\ i < Len(excerpts_of(content))
    /\ Abort("extract")

\* line 176, and back to the loop of import_documents
ExtractDone ==
    /\ pc = "extract"
    /\ i = Len(excerpts_of(content))
    /\ sources # <<>>
    /\ kg_db' = write_graphml(graph)
    /\ last_entity' = call.entities
    /\ pc' = "loop"
    /\ sources' = Tail(sources)
    /\ source' = ""
    /\ content' = <<>>
    /\ doc_id' = NoDoc
    /\ i' = 0
    /\ excerpt_ids' = <<>>
    /\ graph' = EmptyGraph
    /\ aborted' = remove_from_json(aborted, source)
    /\ Did("extract_done", doc_id)
    /\ UNCHANGED <<files, stores, quiet, updates, events, chunker, parser, call>>

\* remove_document_by_id(d), called by hand (line 215)
Remove(d) ==
    /\ pc = "idle"
    /\ SetDB(remove_document_by_id(DB, d))
    /\ quiet' = FALSE
    /\ aborted' = [s \in {t \in DOMAIN aborted :
                            make_hash(aborted[t].content, "doc_") # d} |-> aborted[s]]
    /\ op' = [name  |-> "remove", doc |-> d,
              found |-> d \in DOMAIN doc_id_to_source_map
                            \/ d \in DOMAIN doc_id_to_excerpt_ids]
    /\ updates' = {}
    /\ Event
    /\ UNCHANGED <<files, kg_db, pc, locals, chunker, parser, extraction>>

\* the process ends and starts again: line 31 loads the index from its file
Restart ==
    /\ pc = "idle"
    /\ embeddings_db' = embeddings_file
    /\ Did("restart", NoDoc)
    /\ updates' = {}
    /\ Event
    /\ UNCHANGED <<files, source_to_doc_id_map, doc_id_to_source_map,
                   doc_id_to_excerpt_ids, excerpt_db, embeddings_file, kg_db, pc,
                   locals, quiet, aborted, chunker, parser, extraction>>

Next ==
    \/ \E s \in Sources, c \in Contents : EditFile(s, c)
    \/ StartImport
    \/ ImportNew
    \/ ImportUpdate
    \/ ImportSkip
    \/ ImportDone
    \/ Embed
    \/ EmbedFail
    \/ EmbedSave
    \/ EmbedDone
    \/ LoadGraph
    \/ Extract
    \/ ExtractFail
    \/ ExtractDone
    \/ \E d \in DocIds : Remove(d)
    \/ Restart

Spec == Init /\ [][Next]_vars

\* the same program when no model call fails
NextNoFail ==
    \/ \E s \in Sources, c \in Contents : EditFile(s, c)
    \/ StartImport
    \/ ImportNew
    \/ ImportUpdate
    \/ ImportSkip
    \/ ImportDone
    \/ Embed
    \/ EmbedSave
    \/ EmbedDone
    \/ LoadGraph
    \/ Extract
    \/ ExtractDone
    \/ \E d \in DocIds : Remove(d)
    \/ Restart

SpecNoFail == Init /\ [][NextNoFail]_vars

\* the same program within one process: no restart
NextOneProcess ==
    \/ \E s \in Sources, c \in Contents : EditFile(s, c)
    \/ StartImport
    \/ ImportNew
    \/ ImportUpdate
    \/ ImportSkip
    \/ ImportDone
    \/ Embed
    \/ EmbedFail
    \/ EmbedSave
    \/ EmbedDone
    \/ LoadGraph
    \/ Extract
    \/ ExtractFail
    \/ ExtractDone
    \/ \E d \in DocIds : Remove(d)

SpecOneProcess == Init /\ [][NextOneProcess]_vars

\* ------------------------------------------------------- the chunker alone
Args ==
    [content : Strings(MaxLen), n : 1..MaxN, overlap : 0..MaxN]

InitChunk ==
    /\ InitStores
    /\ files = EmptyMap
    /\ arg \in Args
    /\ ret = Pending

\* get_excerpts(content, n, overlap) is called
CallGetExcerpts ==
    /\ ~ret.called
    /\ LET r == get_excerpts(arg.content, arg.n, arg.overlap)
       IN ret' = [called |-> TRUE, raised |-> r.raised, value |-> r.value]
    /\ UNCHANGED <<files, stores, kg_db, pc, locals, history, arg, parser, extraction>>

\* the next call
NextCall ==
    /\ ret.called
    /\ arg' \in Args
    /\ ret' = Pending
    /\ UNCHANGED <<files, stores, kg_db, pc, locals, history, parser, extraction>>

NextChunk == CallGetExcerpts \/ NextCall

SpecChunk == InitChunk /\ [][NextChunk]_vars

\* ----------------------------------------------- extract_entities alone
\* records the extraction model may give, split into fields: the ones the loop
\* applies ...
WellFormed ==
    { <<"\"entity\"", "\"A\"", "\"cat\"", "\"desc\"">>,
      <<"\"ENTITY\"", "\"A\"", "\"cat2\"", "\"desc2\"">>,
      <<"\"relationship\"", "\"A\"", "\"B\"", "\"d\"", "\"k\"", "\"1\"">>,
      <<"\"Relationship\"", "\"A\"", "\"B\"", "\"d2\"", "\"k2\"", "\"0.9\"">>,
      <<"\"relationship\"", "\"B\"", "\"A\"", "\"d3\"", "\"k3\"", "\"2\"">>,
      <<"\"content_keywords\"", "\"kw\"">> }

\* ... and the ones it drops
Malformed ==
    { <<>>,
      <<"\"entity\"", "\"C\"", "\"cat\"">>,
      <<"\"relationship\"", "\"A\"", "\"C\"", "\"d\"", "\"k\"">>,
      <<"\"content_keywords\"">>,
      <<"\"event\"", "\"C\"", "\"cat\"", "\"desc\"">> }

RecordPool == WellFormed \cup Malformed

\* every response of at most k records
RECURSIVE ResponsesUpTo(_)
ResponsesUpTo(k) ==
    IF k = 0 THEN {<<>>}
    ELSE LET shorter == ResponsesUpTo(k - 1)
         IN shorter \cup {Append(r, f) : r \in {t \in shorter : Len(t) = k - 1},
                                        f \in RecordPool}

\* empty stores, an empty directory and no graph file
InitAlone ==
    /\ InitStores
    /\ files = EmptyMap
    /\ arg = NoArg
    /\ ret = Pending

\* extract_entities(content, doc_id) is called on its own, lines 122-123
CallExtract(c) ==
    /\ pc = "idle"
    /\ content' = c
    /\ doc_id' = make_hash(c, "doc_")
    /\ pc' = "load"
    /\ Did("call", make_hash(c, "doc_"))
    /\ Event
    /\ UNCHANGED <<files, stores, kg_db, sources, source, i, excerpt_ids, graph,
                   quiet, updates, aborted, chunker, parser, extraction>>

\* one turn of the loop, the model answering with at most one record
ExtractOne == ExtractWith(ResponsesUpTo(1))

\* line 176, and extract_entities returns to its caller
ExtractReturn ==
    /\ pc = "extract"
    /\ i = Len(excerpts_of(content))
    /\ sources = <<>>
    /\ kg_db' = write_graphml(graph)
    /\ last_entity' = call.entities
    /\ pc' = "idle"
    /\ IdleLocals
    /\ Did("extract_return", doc_id)
    /\ UNCHANGED <<files, stores, quiet, updates, aborted, events, chunker, parser, call>>

\* the graph file is damaged between two calls: read_graphml will not parse it
CorruptGraph ==
    /\ pc = "idle"
    /\ kg_db.exists
    /\ kg_db.parses
    /\ kg_db' = [kg_db EXCEPT !.parses = FALSE]
    /\ Did("corrupt", NoDoc)
    /\ Event
    /\ UNCHANGED <<files, stores, pc, locals, quiet, updates, aborted, chunker,
                   parser, extraction>>

NextGraph ==
    \/ \E c \in Contents : CallExtract(c)
    \/ LoadGraph
    \/ ExtractOne
    \/ ExtractReturn
    \/ CorruptGraph

SpecGraph == InitAlone /\ [][NextGraph]_vars

\* ---------------------------------------- the loop over records, lines 155-174
\* lines 137-153: the model answers and the answer is split into records
Respond ==
    /\ records = <<>>
    /\ records' \in ResponsesUpTo(MaxRecords)
    /\ applied' = 0
    /\ before' = graph
    /\ UNCHANGED <<files, stores, kg_db, pc, locals, history, chunker, extraction>>

\* lines 156-174, one turn of the loop over records
ApplyRecord ==
    /\ applied < Len(records)
    /\ graph' = apply_record(graph, records[applied + 1])
    /\ applied' = applied + 1
    /\ UNCHANGED <<files, stores, kg_db, pc, sources, source, content, doc_id, i,
                   excerpt_ids, history, chunker, records, before, extraction>>

\* the loop over records is over: on to the next excerpt, line 136
RecordsDone ==
    /\ records # <<>>
    /\ applied = Len(records)
    /\ records' = <<>>
    /\ applied' = 0
    /\ UNCHANGED <<files, stores, kg_db, pc, locals, history, chunker, before,
                   extraction>>

NextRecords == Respond \/ ApplyRecord \/ RecordsDone

SpecRecords == InitAlone /\ [][NextRecords]_vars

\* ----------------------------------------------------------------- claims
ExcerptsTaggedWith(d) == {e \in DOMAIN excerpt_db : excerpt_db[e].doc_id = d}
VectorsTaggedWith(d) == {e \in DOMAIN embeddings_db : embeddings_db[e].doc_id = d}
DocIdsOfSources == {source_to_doc_id_map[s] : s \in DOMAIN source_to_doc_id_map}

\* C1: a pass of import_documents that starts right after a completed pass, with
\* no document changed in between, takes the "no changes" branch for every
\* source and changes none of the maps, the excerpt store or the vector index.
C1_SecondPassChangesNothing ==
    [][(quiet /\ pc # "idle") =>
          /\ op'.name \in {"skip", "pass_done"}
          /\ stores' = stores]_vars

\* C2: when a pass that updated a source has completed, no excerpt or vector
\* record is tagged with the old doc id, every excerpt of the new content has an
\* excerpt record and a vector record tagged with the new doc id, the source maps
\* to the new id, and the old id is in none of the maps.  Stated for the updates
\* whose old content is, at the end of the pass, the content of no document.
Superseded(d) == \A s \in DOMAIN files : make_hash(files[s], "doc_") # d

C2_UpdateReplacesDocument ==
    op.name = "pass_done" =>
        \A u \in {v \in updates : Superseded(v.old)} :
            LET new_id == make_hash(u.new, "doc_")
                ids    == {make_hash(x, "excerpt_id_") : x \in SeqRange(excerpts_of(u.new))}
            IN /\ ExcerptsTaggedWith(u.old) = {}
               /\ VectorsTaggedWith(u.old) = {}
               /\ \A e \in ids :
                    /\ e \in DOMAIN excerpt_db /\ excerpt_db[e].doc_id = new_id
                    /\ e \in DOMAIN embeddings_db /\ embeddings_db[e].doc_id = new_id
               /\ u.source \in DOMAIN source_to_doc_id_map
               /\ source_to_doc_id_map[u.source] = new_id
               /\ u.old \notin DocIdsOfSources
               /\ u.old \notin DOMAIN doc_id_to_source_map
               /\ u.old \notin DOMAIN doc_id_to_excerpt_ids

\* C3: right after remove_document_by_id(d), d is in none of the three maps and
\* no excerpt record and no vector record is tagged with d.
C3_RemovalLeavesNothing ==
    op.name = "remove" =>
        /\ op.doc \notin DocIdsOfSources
        /\ op.doc \notin DOMAIN doc_id_to_source_map
        /\ op.doc \notin DOMAIN doc_id_to_excerpt_ids
        /\ ExcerptsTaggedWith(op.doc) = {}
        /\ VectorsTaggedWith(op.doc) = {}

\* C4: between operations the source->doc-id map and the doc-id->source map are
\* inverses of each other.
C4_MapsAreInverse ==
    pc = "idle" =>
        \A s \in Sources, d \in DocIds :
            (s \in DOMAIN source_to_doc_id_map /\ source_to_doc_id_map[s] = d)
                <=> (d \in DOMAIN doc_id_to_source_map /\ doc_id_to_source_map[d] = s)

\* C5: when a pass that updated a source has completed and the indexing of the
\* superseded document had been aborted in its embedding leg, no excerpt record
\* and no vector record tagged with the superseded doc id is left.
C5_NoPartialSetSurvivesUpdate ==
    op.name = "pass_done" =>
        \A u \in {v \in updates : v.partial /\ Superseded(v.old)} :
            /\ ExcerptsTaggedWith(u.old) = {}
            /\ VectorsTaggedWith(u.old) = {}

\* C6: a source whose indexing pass was aborted by a model-call failure is not
\* indexed again (as new or as an update) while its content is the content of
\* the aborted pass and nobody removed its document by hand.
C6_AbortedNotRetried ==
    op.name \in {"new", "update"} =>
        ~(source \in DOMAIN aborted /\ aborted[source].content = content)

\* the ids of the first k excerpts of a content
FirstIds(text, k) == {make_hash(excerpts_of(text)[j], "excerpt_id_") : j \in 1..k}

WrittenFirst(ex, vec, text, id, k) ==
    \A e \in FirstIds(text, k) :
        /\ e \in DOMAIN ex /\ ex[e].doc_id = id
        /\ e \in DOMAIN vec /\ vec[e].doc_id = id

\* C7 as stated: when the model call for excerpt k fails, the excerpt records and
\* the vector records of excerpts 0..k-1 are in the excerpt store, in the live
\* index and in the index file, and the embedding leg wrote no doc->excerpt-ids
\* entry.
C7_NoRollbackAlsoOnDisk ==
    [][/\ (pc \in {"embed", "save"} /\ op'.name # "embed_done") =>
              doc_id_to_excerpt_ids' = doc_id_to_excerpt_ids
       /\ op'.name = "embed_fail" =>
              /\ pc' = "idle"
              /\ WrittenFirst(excerpt_db', embeddings_db', content, doc_id, i)
              /\ WrittenFirst(excerpt_db', embeddings_file', content, doc_id, i)]_vars

\* C7 amended: the same, for the excerpt store and the live index only.
C7_NoRollback ==
    [][/\ (pc \in {"embed", "save"} /\ op'.name # "embed_done") =>
              doc_id_to_excerpt_ids' = doc_id_to_excerpt_ids
       /\ op'.name = "embed_fail" =>
              /\ pc' = "idle"
              /\ WrittenFirst(excerpt_db', embeddings_db', content, doc_id, i)]_vars

\* a pass was aborted after it wrote excerpts of a document that has no
\* doc->excerpt-ids entry, and the index file does not hold them
C7_Witness ==
    /\ op.name = "embed_fail"
    /\ ExcerptsTaggedWith(op.doc) # {}
    /\ VectorsTaggedWith(op.doc) # {}
    /\ op.doc \notin DOMAIN doc_id_to_excerpt_ids
    /\ \E e \in VectorsTaggedWith(op.doc) : e \notin DOMAIN embeddings_file

\* C8: remove_document_by_id(d) for a d that is in neither the doc-id->source map
\* nor the doc-id->excerpt-ids map changes no map, no store, no index and no
\* file; and right after any remove_document_by_id(d) a second one changes
\* nothing.
C8_RemoveAbsentIsNoOp ==
    [][op'.name = "remove" =>
          /\ (/\ op'.doc \notin DOMAIN doc_id_to_source_map
              /\ op'.doc \notin DOMAIN doc_id_to_excerpt_ids)
                => (stores' = stores /\ kg_db' = kg_db)
          /\ remove_document_by_id(DB', op'.doc) = DB']_vars

\* a removal that found nothing, in a state where the maps, the excerpt store
\* and the live index hold something and the index file lags behind
C8_Witness ==
    /\ op.name = "remove"
    /\ ~op.found
    /\ source_to_doc_id_map # EmptyMap
    /\ excerpt_db # EmptyMap
    /\ embeddings_db # embeddings_file

\* C9: after the first pass over a directory of one document, with empty stores
\* before and no failure, there are ceil(len/step) excerpt records, as many
\* vector records, and one doc->excerpt-ids entry with that many ids.
C9_FirstImportCounts ==
    (op.name = "pass_done" /\ events = 0 /\ Cardinality(DOMAIN files) = 1) =>
        \A s \in DOMAIN files :
            LET count == CeilDiv(Len(files[s]), Step)
                id    == make_hash(files[s], "doc_")
            IN /\ Cardinality(DOMAIN excerpt_db) = count
               /\ Cardinality(DOMAIN embeddings_db) = count
               /\ DOMAIN doc_id_to_excerpt_ids = {id}
               /\ Len(doc_id_to_excerpt_ids[id]) = count

\* C10: for n > overlap >= 0, get_excerpts returns the windows
\* content[k*step : k*step + n], k = 0 .. ceil(len/step) - 1, in order; a window
\* that fits in the content has length n and the shorter ones come last; every
\* position of the content is in some window.
C10_ChunkerWindows ==
    (ret.called /\ arg.n > arg.overlap) =>
        LET step  == arg.n - arg.overlap
            len   == Len(arg.content)
            count == CeilDiv(len, step)
            first(k) == (k - 1) * step + 1
            last(k)  == IF first(k) + arg.n - 1 < len THEN first(k) + arg.n - 1 ELSE len
            out   == ret.value
        IN /\ ~ret.raised
           /\ Len(out) = count
           /\ \A k \in 1..count :
                /\ out[k] = [j \in 1..(last(k) - first(k) + 1) |-> arg.content[first(k) + j - 1]]
                /\ Len(out[k]) >= 1
                /\ first(k) + arg.n - 1 <= len => Len(out[k]) = arg.n
                /\ \A m \in k..count : Len(out[k]) < arg.n => Len(out[m]) < arg.n
           /\ \A p \in 1..len :
                \E k \in 1..count : first(k) <= p /\ p <= first(k) + Len(out[k]) - 1

\* a call with an overlap that returned full windows followed by a shorter one
C10_Witness ==
    /\ ret.called
    /\ ~ret.raised
    /\ arg.n > arg.overlap
    /\ arg.overlap > 0
    /\ Len(ret.value) >= 3
    /\ Len(ret.value[1]) = arg.n
    /\ Len(ret.value[Len(ret.value)]) < arg.n

\* C11: a call get_excerpts(content, n, overlap) with overlap >= n raises instead
\* of returning a list of excerpts, whatever the content.
C11_DegenerateRejected ==
    (ret.called /\ arg.overlap >= arg.n) => ret.raised

\* the records the loop has no use for: too short for their discriminator, or
\* of no known discriminator
IsMalformed(fields) ==
    IF fields = <<>> THEN TRUE
    ELSE LET t == Lower(fields[1])
         IN \/ t = "\"entity\"" /\ Len(fields) < 4
            \/ t = "\"relationship\"" /\ Len(fields) < 6
            \/ t = "\"content_keywords\"" /\ Len(fields) < 2
            \/ t \notin {"\"entity\"", "\"relationship\"", "\"content_keywords\""}

WithoutMalformed(response) == SelectSeq(response, LAMBDA f : ~IsMalformed(f))

\* C12: a turn of the record loop on a malformed record leaves the graph as it
\* is, and when the loop has handled every record of the response the graph is
\* the one the response without its malformed records gives.
C12_MalformedDropped ==
    [][applied' = applied + 1 =>
          /\ IsMalformed(records[applied + 1]) => graph' = graph
          /\ applied' = Len(records) =>
                graph' = apply_records(before, WithoutMalformed(records))]_vars

\* a response of a relationship, a malformed record and an entity has been
\* handled, and the graph has the edge and the entity
C12_Witness ==
    /\ applied = 3
    /\ Len(records) = 3
    /\ records[1] \in WellFormed /\ Lower(records[1][1]) = "\"relationship\""
    /\ IsMalformed(records[2]) /\ records[2] # <<>>
    /\ records[3] \in WellFormed /\ Lower(records[3][1]) = "\"entity\""
    /\ before = EmptyGraph
    /\ <<records[1][2], records[1][3]>> \in DOMAIN graph.edges
    /\ graph.nodes[records[3][2]] =
            [category |-> records[3][3], description |-> records[3][4]]

\* every name of known has a node in g with that category and description
NodesAgree(g, known) ==
    \A name \in DOMAIN known :
        /\ name \in DOMAIN g.nodes
        /\ g.nodes[name] = known[name]

\* C13: while extract_entities runs, and in the graph file between calls (unless
\* the file was damaged), every entity name has one node, with the category and
\* the description of the latest entity record of that name.
C13_LastWriteWins ==
    /\ pc = "extract" => NodesAgree(graph, call.entities)
    /\ (pc = "idle" /\ kg_db.exists /\ kg_db.parses) =>
            NodesAgree(kg_db.graph, last_entity)

\* a call that loaded a graph file with an entity, and wrote the file with
\* another category and description for that name
C13_Witness ==
    /\ op.name = "extract_return"
    /\ call.start = "parsed"
    /\ \E name \in DOMAIN call.old.nodes :
          /\ call.old.nodes[name] # EmptyMap
          /\ name \in DOMAIN last_entity
          /\ last_entity[name] # call.old.nodes[name]
          /\ kg_db.graph.nodes[name] = last_entity[name]

IsRelationship(fields) ==
    /\ Len(fields) >= 6
    /\ Lower(fields[1]) = "\"relationship\""

\* C14: a turn of the record loop on a relationship record (source, target,
\* description, keywords, weight) leaves the edge source->target with exactly
\* these attributes, the weight as text; no other edge changes; the endpoints
\* that were no nodes become nodes without attributes; every node there was
\* keeps its attributes.
C14_EdgeMerge ==
    [][(applied' = applied + 1 /\ IsRelationship(records[applied + 1])) =>
          LET f == records[applied + 1]
              u == f[2]
              v == f[3]
          IN /\ DOMAIN graph'.edges = (DOMAIN graph.edges) \cup {<<u, v>>}
             /\ graph'.edges[<<u, v>>] =
                    [description |-> f[4], keywords |-> f[5], weight |-> f[6]]
             /\ \A e \in (DOMAIN graph.edges) \ {<<u, v>>} :
                    graph'.edges[e] = graph.edges[e]
             /\ DOMAIN graph'.nodes = (DOMAIN graph.nodes) \cup {u, v}
             /\ \A n \in DOMAIN graph.nodes : graph'.nodes[n] = graph.nodes[n]
             /\ \A n \in {u, v} \ DOMAIN graph.nodes : graph'.nodes[n] = EmptyMap
             /\ graph'.graph = graph.graph]_vars

\* a relationship record was the first of its response: its source was a node
\* with a category, its target was no node, and now the edge is there, the
\* source as it was and the target without attributes
C14_Witness ==
    /\ applied = 1
    /\ Len(records) >= 1
    /\ IsRelationship(records[1])
    /\ records[1][2] \in DOMAIN before.nodes
    /\ before.nodes[records[1][2]] # EmptyMap
    /\ records[1][3] \notin DOMAIN before.nodes
    /\ <<records[1][2], records[1][3]>> \in DOMAIN graph.edges
    /\ graph.edges[<<records[1][2], records[1][3]>>].weight = records[1][6]
    /\ graph.nodes[records[1][2]] = before.nodes[records[1][2]]
    /\ graph.nodes[records[1][3]] = EmptyMap

NodesOf(kg) == DOMAIN kg.graph.nodes
EdgesOf(kg) == DOMAIN kg.graph.edges

\* C15: remove_document_by_id and the branch of import_documents that removes
\* the old document leave the graph file as it is, and no step takes a node or
\* an edge out of the graph file.
C15_GraphOnlyGrows ==
    [][/\ op'.name \in {"remove", "update"} => kg_db' = kg_db
       /\ NodesOf(kg_db) \subseteq NodesOf(kg_db')
       /\ EdgesOf(kg_db) \subseteq EdgesOf(kg_db')]_vars

\* the document of an updated source has been indexed: its extraction loaded a
\* graph file with nodes and edges, and wrote it back with all of them
C15_Witness ==
    /\ op.name = "extract_done"
    /\ \E u \in updates : make_hash(u.new, "doc_") = op.doc
    /\ call.start = "parsed"
    /\ DOMAIN call.old.nodes # {}
    /\ DOMAIN call.old.edges # {}
    /\ DOMAIN call.old.nodes \subseteq NodesOf(kg_db)
    /\ DOMAIN call.old.edges \subseteq EdgesOf(kg_db)

\* C16: extract_entities starts from the empty graph when there is no graph
\* file and when the file does not parse, and goes on to the excerpts; the
\* graph it then writes is what the records of this call give on an empty graph.
C16_LoadFallback ==
    [][/\ (op'.name = "load" /\ ~(kg_db.exists /\ kg_db.parses)) =>
              /\ graph' = EmptyGraph
              /\ pc' = "extract"
       /\ (op'.name = "extract_return" /\ call.start \in {"absent", "fallback"}) =>
              /\ kg_db'.exists
              /\ kg_db'.parses
              /\ kg_db'.graph = call.fresh]_vars

\* a call found a graph file that did not parse, extracted something, and wrote
\* a graph that lacks a node of the damaged file
C16_Witness ==
    /\ op.name = "extract_return"
    /\ call.start = "fallback"
    /\ kg_db.parses
    /\ NodesOf(kg_db) # {}
    /\ DOMAIN call.old.nodes \ NodesOf(kg_db) # {}

\* the excerpt ids of a content, in chunk order
IdsOf(text) ==
    [k \in DOMAIN excerpts_of(text) |-> make_hash(excerpts_of(text)[k], "excerpt_id_")]

\* C17: in embed_document the turns of the loop neither save the index nor write
\* the doc->excerpt-ids map; the save comes once, when every excerpt of the
\* document has its excerpt record and its vector record; the map entry is
\* written once, after the save, with the ids of all excerpts, all of them in
\* the saved index; nothing else adds to the map.
C17_PersistOnce ==
    [][/\ op'.name = "embed" =>
              /\ embeddings_file' = embeddings_file
              /\ doc_id_to_excerpt_ids' = doc_id_to_excerpt_ids
       /\ op'.name = "embed_save" =>
              /\ pc = "embed" /\ pc' = "save"
              /\ excerpt_ids = IdsOf(content)
              /\ \A e \in SeqRange(excerpt_ids) :
                    /\ e \in DOMAIN excerpt_db /\ excerpt_db[e].doc_id = doc_id
                    /\ e \in DOMAIN embeddings_db /\ embeddings_db[e].doc_id = doc_id
              /\ embeddings_file' = embeddings_db
              /\ embeddings_db' = embeddings_db
              /\ doc_id_to_excerpt_ids' = doc_id_to_excerpt_ids
       /\ op'.name = "embed_done" =>
              /\ pc = "save" /\ pc' = "load"
              /\ embeddings_file = embeddings_db
              /\ embeddings_file' = embeddings_file
              /\ doc_id_to_excerpt_ids' =
                    add_to_json(doc_id_to_excerpt_ids, doc_id, IdsOf(content))
              /\ \A e \in SeqRange(IdsOf(content)) :
                    /\ e \in DOMAIN excerpt_db'
                    /\ e \in DOMAIN embeddings_file'
       /\ (pc' = "save" \/ pc = "save") => op'.name \in {"embed_save", "embed_done"}
       /\ ~(DOMAIN doc_id_to_excerpt_ids' \subseteq DOMAIN doc_id_to_excerpt_ids) =>
              op'.name = "embed_done"]_vars

\* embed_document has written the map entry of a document of several excerpts,
\* and the index file holds their vectors
C17_Witness ==
    /\ op.name = "embed_done"
    /\ op.doc \in DOMAIN doc_id_to_excerpt_ids
    /\ Len(doc_id_to_excerpt_ids[op.doc]) >= 2
    /\ embeddings_file = embeddings_db
    /\ SeqRange(doc_id_to_excerpt_ids[op.doc]) \subseteq DOMAIN embeddings_file

\* C18: when embed_document has written the doc->excerpt-ids entry of d, the
\* excerpt record under the id at position k of the list has doc_id = d and
\* doc_order_index = k (positions counted from 0).
C18_OrderIndexAgrees ==
    op.name = "embed_done" =>
        LET ids == doc_id_to_excerpt_ids[op.doc]
        IN \A k \in DOMAIN ids :
              /\ ids[k] \in DOMAIN excerpt_db
              /\ excerpt_db[ids[k]].doc_id = op.doc
              /\ excerpt_db[ids[k]].doc_order_index = k - 1

\* C19: between operations, when no model call has failed, every source of the
\* source->doc-id map has a doc->excerpt-ids entry for its doc id, and every id
\* of that list is in the excerpt store and in the vector index.
C19_IndexedSourceIsWhole ==
    pc = "idle" =>
        \A s \in DOMAIN source_to_doc_id_map :
            LET d == source_to_doc_id_map[s]
            IN /\ d \in DOMAIN doc_id_to_excerpt_ids
               /\ \A e \in SeqRange(doc_id_to_excerpt_ids[d]) :
                     /\ e \in DOMAIN excerpt_db
                     /\ e \in DOMAIN embeddings_db

\* C20: between operations of one process the keys of the excerpt store are the
\* ids of the live vector index.
C20_StoreAndIndexInStep ==
    pc = "idle" => DOMAIN excerpt_db = DOMAIN embeddings_db

\* a removal found its document, and the excerpts a pass wrote before it was
\* aborted are still in the store and in the index
C20_Witness ==
    /\ op.name = "remove"
    /\ op.found
    /\ \E s \in DOMAIN aborted :
          /\ aborted[s].leg = "embed"
          /\ ExcerptsTaggedWith(make_hash(aborted[s].content, "doc_")) # {}
          /\ VectorsTaggedWith(make_hash(aborted[s].content, "doc_")) # {}

====
